---- MODULE Spec2Model ----
(***************************************************************************)
(* Tile-based maze game: Level (grid + tile queries), Player (cell, pixel  *)
(* position, movement state machine, key inventory) and the p5 sketch that *)
(* drives them (setup, draw, keyPressed, loadLevel, restartGame).          *)
(*                                                                         *)
(* Units.  Pixel quantities are whole pixels.  The frame delta deltaTime   *)
(* is counted in 1/13 ms, so that speed * (deltaTime / 1000) with          *)
(* speed = 130 px/s is a whole number of pixels for every delta drawn      *)
(* here; the model therefore computes the interpolation exactly, without   *)
(* the rounding of IEEE doubles.                                           *)
(***************************************************************************)
EXTENDS Integers, Sequences, FiniteSets, TLC

VARIABLES
    levelsData,   \* raw JSON: sequence of tile matrices (levels.json)
    levels,       \* array of Level instances, indexed from 0
    li,           \* current level index
    player,       \* the Player instance
    hasWon,       \* win flag
    showStart,    \* start screen shown until dismissed
    pc,           \* position inside draw(): "idle" (not in draw), "arrived"
                  \* (about to run line 271), "resolved" (about to run line 273)
    last,         \* history: the call made by the latest step and its result
    transit       \* history: target cell, key count and target tile recorded
                  \* when the latest transit was started

vars == <<levelsData, levels, li, player, hasWon, showStart, pc, last, transit>>

----------------------------------------------------------------------------
(* Bounds *)

\* Frame deltas range over 0 .. MaxDt quanta of 800/13 ms (8 px of travel each).
MaxDt == 5

----------------------------------------------------------------------------
(* Program constants *)

TS == 32
speed == 130
null == -1
\* The value of grid[r][c] read outside a row (JavaScript's undefined).
undefined == -2

Floor == 0
Wall == 1
Start == 2
Goal == 3
Key == 4
Gate == 5

----------------------------------------------------------------------------
(* Level data: matrices written as sequences of rows, stored indexed from 0 *)

Matrix(rowsSeq) ==
    [r \in 0..(Len(rowsSeq) - 1) |->
        [c \in 0..(Len(rowsSeq[r + 1]) - 1) |-> rowsSeq[r + 1][c + 1]]]

\* start, two keys, one gate on the only way to the goal, open edges
GridA == Matrix(<< <<2, 4, 5, 0>>,
                   <<4, 0, 1, 3>> >>)
\* one key, two gates; the gate left of the start is locked at first
GridB == Matrix(<< <<5, 2, 4>>,
                   <<3, 1, 5>> >>)
\* no start tile, fallback cell (1,1) is floor
GridC == Matrix(<< <<1, 1, 1>>,
                   <<1, 0, 3>> >>)
\* no start tile, fallback cell (1,1) is a wall
GridD == Matrix(<< <<0, 0, 3>>,
                   <<4, 1, 5>> >>)
\* no start tile, a single row: the fallback cell (1,1) is outside the grid
GridE == Matrix(<< <<0, 4, 3>> >>)

\* malformed: two start tiles
GridF == Matrix(<< <<2, 0, 3>>,
                   <<2, 4, 1>> >>)
\* malformed: a tile code outside the legend
GridG == Matrix(<< <<2, 7, 3>> >>)

LevelData == { <<GridA>>, <<GridB>>, <<GridC, GridA>>, <<GridD>>, <<GridE>>,
               <<GridF>>, <<GridG>> }

DeltaTimes == { 800 * k : k \in 0..MaxDt }

Keys == { "LEFT_ARROW", "RIGHT_ARROW", "UP_ARROW", "DOWN_ARROW",
          "a", "d", "w", "s", " ", "q" }

----------------------------------------------------------------------------
(* Level *)

rows(level) == Cardinality(DOMAIN level.grid)

cols(level) == Cardinality(DOMAIN level.grid[0])

inBounds(level, r, c) == r >= 0 /\ c >= 0 /\ r < rows(level) /\ c < cols(level)

\* this.grid[r][c]; outside the grid the read yields undefined (outside the
\* rows JavaScript throws instead: no caller reaches that, see canMoveTo).
tileAt(level, r, c) ==
    IF r \in DOMAIN level.grid /\ c \in DOMAIN level.grid[r]
    THEN level.grid[r][c]
    ELSE undefined

isWall(level, r, c) == tileAt(level, r, c) = 1

isGoal(level, r, c) == tileAt(level, r, c) = 3

isKey(level, r, c) == tileAt(level, r, c) = 4

isGate(level, r, c) == tileAt(level, r, c) = 5

\* The row-major scan of findStart, from cell (r, c) on; <<>> stands for null.
RECURSIVE scanStart(_, _, _)
scanStart(grid, r, c) ==
    IF r >= Cardinality(DOMAIN grid) THEN <<>>
    ELSE IF c >= Cardinality(DOMAIN grid[0]) THEN scanStart(grid, r + 1, 0)
    ELSE IF grid[r][c] = 2 THEN <<r, c>>
    ELSE scanStart(grid, r, c + 1)

findStart(grid) == scanStart(grid, 0, 0)

\* new Level(grid, TS)
NewLevel(grid) ==
    LET start == findStart(grid) IN
    [ grid  |-> IF start # <<>>
                THEN [grid EXCEPT ![start[1]][start[2]] = 0]
                ELSE grid,
      start |-> start ]

copyGrid(grid) == [r \in DOMAIN grid |-> [c \in DOMAIN grid[r] |-> grid[r][c]]]

----------------------------------------------------------------------------
(* Player *)

\* new Player(TS)
NewPlayer ==
    [ r |-> 0, c |-> 0, keysCollected |-> 0,
      moving |-> FALSE, targetR |-> null, targetC |-> null,
      px |-> 0, py |-> 0, arrivedThisFrame |-> FALSE,
      dirR |-> 0, dirC |-> 0 ]

setCell(p, r, c) ==
    [p EXCEPT !.r = r, !.c = c,
              !.px = c * TS + TS \div 2,
              !.py = r * TS + TS \div 2,
              !.arrivedThisFrame = FALSE]

resetKey(p) == [p EXCEPT !.keysCollected = 0]

\* canMoveTo without the locked-gate test.
canMoveTo_noGateTest(p, level, nr, nc) ==
    IF ~inBounds(level, nr, nc) THEN FALSE
    ELSE IF isWall(level, nr, nc) THEN FALSE
    ELSE TRUE

\* canMoveTo treating every gate as a wall, whatever the key count.
canMoveTo_gateIsWall(p, level, nr, nc) ==
    IF ~inBounds(level, nr, nc) THEN FALSE
    ELSE IF isWall(level, nr, nc) THEN FALSE
    ELSE IF isGate(level, nr, nc) THEN FALSE
    ELSE TRUE

canMoveTo(p, level, nr, nc) ==
    IF ~inBounds(level, nr, nc) THEN FALSE
    ELSE IF isWall(level, nr, nc) THEN FALSE
    ELSE IF isGate(level, nr, nc) /\ p.keysCollected = 0 THEN FALSE
    ELSE TRUE

\* tryMove redirecting a transit in flight to the newly requested neighbour.
tryMove_redirect(p, level, dr, dc) ==
    LET q  == [p EXCEPT !.dirR = dr, !.dirC = dc]
        nr == q.r + dr
        nc == q.c + dc
    IN  IF ~canMoveTo(q, level, nr, nc) THEN [player |-> q, ret |-> q.moving]
        ELSE [ player |-> [q EXCEPT !.targetR = nr, !.targetC = nc, !.moving = TRUE],
               ret    |-> TRUE ]

\* tryMove committing the target and the moving flag before the collision test.
tryMove_commitFirst(p, level, dr, dc) ==
    LET nr == p.r + dr
        nc == p.c + dc
        q  == [p EXCEPT !.dirR = dr, !.dirC = dc]
        t  == [q EXCEPT !.targetR = nr, !.targetC = nc, !.moving = TRUE]
    IN  IF p.moving THEN [player |-> q, ret |-> TRUE]
        ELSE IF ~canMoveTo(q, level, nr, nc) THEN [player |-> t, ret |-> FALSE]
        ELSE [player |-> t, ret |-> TRUE]

\* tryMove and tryContinue return [player |-> the player afterwards,
\* ret |-> the value returned].
tryMove(p, level, dr, dc) ==
    LET q  == [p EXCEPT !.dirR = dr, !.dirC = dc]
        nr == q.r + dr
        nc == q.c + dc
    IN  IF q.moving THEN [player |-> q, ret |-> TRUE]
        ELSE IF ~canMoveTo(q, level, nr, nc) THEN [player |-> q, ret |-> FALSE]
        ELSE [ player |-> [q EXCEPT !.targetR = nr, !.targetC = nc, !.moving = TRUE],
               ret    |-> TRUE ]

\* tryContinue that continues into a locked gate.
tryContinue_intoLockedGate(p, level) ==
    LET nr == p.r + p.dirR
        nc == p.c + p.dirC
    IN  IF p.moving THEN [player |-> p, ret |-> TRUE]
        ELSE IF p.dirR = 0 /\ p.dirC = 0 THEN [player |-> p, ret |-> FALSE]
        ELSE IF ~canMoveTo_noGateTest(p, level, nr, nc) THEN [player |-> p, ret |-> FALSE]
        ELSE [ player |-> [p EXCEPT !.targetR = nr, !.targetC = nc, !.moving = TRUE],
               ret    |-> TRUE ]

tryContinue(p, level) ==
    LET nr == p.r + p.dirR
        nc == p.c + p.dirC
    IN  IF p.moving THEN [player |-> p, ret |-> TRUE]
        ELSE IF p.dirR = 0 /\ p.dirC = 0 THEN [player |-> p, ret |-> FALSE]
        ELSE IF ~canMoveTo(p, level, nr, nc) THEN [player |-> p, ret |-> FALSE]
        ELSE [ player |-> [p EXCEPT !.targetR = nr, !.targetC = nc, !.moving = TRUE],
               ret    |-> TRUE ]

\* finishMove that forgets to clear the moving flag.
finishMove_keepMoving(p) ==
    [p EXCEPT !.r = p.targetR, !.c = p.targetC, !.arrivedThisFrame = TRUE]

finishMove(p) ==
    [p EXCEPT !.r = p.targetR, !.c = p.targetC,
              !.moving = FALSE, !.arrivedThisFrame = TRUE]

\* Math.sqrt on the sums of squares that occur (rounded down otherwise).
Sqrt(n) == CHOOSE k \in 0..n : k * k <= n /\ (k + 1) * (k + 1) > n

\* speed * (deltaTime / 1000), deltaTime in 1/13 ms
Step(dt) == (speed * dt) \div (13 * 1000)

\* update arriving only when the step strictly exceeds the remaining distance.
update_strict(p, dt) ==
    IF ~p.moving THEN p
    ELSE
        LET targetPx == p.targetC * TS + TS \div 2
            targetPy == p.targetR * TS + TS \div 2
            dx   == targetPx - p.px
            dy   == targetPy - p.py
            dist == Sqrt(dx * dx + dy * dy)
            step == Step(dt)
        IN  IF dist = 0 THEN finishMove(p)
            ELSE IF step > dist
                 THEN finishMove([p EXCEPT !.px = targetPx, !.py = targetPy])
                 ELSE [p EXCEPT !.px = p.px + (dx * step) \div dist,
                                !.py = p.py + (dy * step) \div dist]

\* update without the snap: the arriving step is added like any other.
update_noSnap(p, dt) ==
    IF ~p.moving THEN p
    ELSE
        LET targetPx == p.targetC * TS + TS \div 2
            targetPy == p.targetR * TS + TS \div 2
            dx   == targetPx - p.px
            dy   == targetPy - p.py
            dist == Sqrt(dx * dx + dy * dy)
            step == Step(dt)
            q    == [p EXCEPT !.px = p.px + (dx * step) \div dist,
                              !.py = p.py + (dy * step) \div dist]
        IN  IF dist = 0 THEN finishMove(p)
            ELSE IF step >= dist THEN finishMove(q)
                 ELSE q

update(p, dt) ==
    IF ~p.moving THEN p
    ELSE
        LET targetPx == p.targetC * TS + TS \div 2
            targetPy == p.targetR * TS + TS \div 2
            dx   == targetPx - p.px
            dy   == targetPy - p.py
            dist == Sqrt(dx * dx + dy * dy)
            step == Step(dt)
        IN  IF dist = 0 THEN finishMove(p)
            ELSE IF step >= dist
                 THEN finishMove([p EXCEPT !.px = targetPx, !.py = targetPy])
                 ELSE [p EXCEPT !.px = p.px + (dx * step) \div dist,
                                !.py = p.py + (dy * step) \div dist]

\* handleArrival that forgets to clear arrivedThisFrame.
handleArrival_keepFlag(p, level) ==
    LET p1 == IF isKey(level, p.r, p.c)
              THEN [p EXCEPT !.keysCollected = p.keysCollected + 1] ELSE p
        l1 == IF isKey(level, p.r, p.c)
              THEN [level EXCEPT !.grid[p.r][p.c] = 0] ELSE level
        p2 == IF isGate(l1, p1.r, p1.c)
              THEN [p1 EXCEPT !.keysCollected =
                        IF p1.keysCollected - 1 > 0 THEN p1.keysCollected - 1 ELSE 0]
              ELSE p1
        l2 == IF isGate(l1, p1.r, p1.c)
              THEN [l1 EXCEPT !.grid[p1.r][p1.c] = 0] ELSE l1
    IN  [ player |-> p2, level |-> l2 ]

\* handleArrival that leaves a collected key in the grid.
handleArrival_keepKey(p, level) ==
    LET p1 == IF isKey(level, p.r, p.c)
              THEN [p EXCEPT !.keysCollected = p.keysCollected + 1] ELSE p
        p2 == IF isGate(level, p1.r, p1.c)
              THEN [p1 EXCEPT !.keysCollected =
                        IF p1.keysCollected - 1 > 0 THEN p1.keysCollected - 1 ELSE 0]
              ELSE p1
        l2 == IF isGate(level, p1.r, p1.c)
              THEN [level EXCEPT !.grid[p1.r][p1.c] = 0] ELSE level
    IN  [ player |-> [p2 EXCEPT !.arrivedThisFrame = FALSE], level |-> l2 ]

\* handleArrival that leaves a passed gate in the grid.
handleArrival_keepGate(p, level) ==
    LET p1 == IF isKey(level, p.r, p.c)
              THEN [p EXCEPT !.keysCollected = p.keysCollected + 1] ELSE p
        l1 == IF isKey(level, p.r, p.c)
              THEN [level EXCEPT !.grid[p.r][p.c] = 0] ELSE level
        p2 == IF isGate(l1, p1.r, p1.c)
              THEN [p1 EXCEPT !.keysCollected =
                        IF p1.keysCollected - 1 > 0 THEN p1.keysCollected - 1 ELSE 0]
              ELSE p1
    IN  [ player |-> [p2 EXCEPT !.arrivedThisFrame = FALSE], level |-> l1 ]

\* handleArrival with the key branch falling through into the gate branch
\* (the tile is tested once, before the pickup).
handleArrival_keyThenGate(p, level) ==
    LET p1 == IF isKey(level, p.r, p.c)
              THEN [p EXCEPT !.keysCollected = p.keysCollected + 1] ELSE p
        p2 == IF isKey(level, p.r, p.c) \/ isGate(level, p.r, p.c)
              THEN [p1 EXCEPT !.keysCollected =
                        IF p1.keysCollected - 1 > 0 THEN p1.keysCollected - 1 ELSE 0]
              ELSE p1
        l2 == IF isKey(level, p.r, p.c) \/ isGate(level, p.r, p.c)
              THEN [level EXCEPT !.grid[p.r][p.c] = 0] ELSE level
    IN  [ player |-> [p2 EXCEPT !.arrivedThisFrame = FALSE], level |-> l2 ]

\* handleArrival returns [player |-> ..., level |-> ...]: both afterwards.
handleArrival(p, level) ==
    LET p1 == IF isKey(level, p.r, p.c)
              THEN [p EXCEPT !.keysCollected = p.keysCollected + 1] ELSE p
        l1 == IF isKey(level, p.r, p.c)
              THEN [level EXCEPT !.grid[p.r][p.c] = 0] ELSE level
        p2 == IF isGate(l1, p1.r, p1.c)
              THEN [p1 EXCEPT !.keysCollected =
                        IF p1.keysCollected - 1 > 0 THEN p1.keysCollected - 1 ELSE 0]
              ELSE p1
        l2 == IF isGate(l1, p1.r, p1.c)
              THEN [l1 EXCEPT !.grid[p1.r][p1.c] = 0] ELSE l1
    IN  [ player |-> [p2 EXCEPT !.arrivedThisFrame = FALSE], level |-> l2 ]

----------------------------------------------------------------------------
(* Sketch *)

\* loadLevel that forgets player.resetKey().
loadLevel_noKeyReset(p, lvls, idx) ==
    LET level == lvls[idx]
        p2 == IF level.start # <<>>
              THEN setCell(p, level.start[1], level.start[2])
              ELSE setCell(p, 1, 1)
    IN  [p2 EXCEPT !.moving = FALSE, !.dirR = 0, !.dirC = 0,
                   !.arrivedThisFrame = FALSE]

\* loadLevel(idx) applied to the player; levels are left as they are.
loadLevel(p, lvls, idx) ==
    LET level == lvls[idx]
        p1 == resetKey(p)
        p2 == IF level.start # <<>>
              THEN setCell(p1, level.start[1], level.start[2])
              ELSE setCell(p1, 1, 1)
    IN  [p2 EXCEPT !.moving = FALSE, !.dirR = 0, !.dirC = 0,
                   !.arrivedThisFrame = FALSE]

\* levelsData.levels.map((grid) => new Level(copyGrid(grid), TS))
BuildLevels(data) == [i \in 0..(Len(data) - 1) |-> NewLevel(copyGrid(data[i + 1]))]

\* The history record of a step: the call made, its arguments (direction or
\* frame delta), whether the player was moving before it, and its result.
Call(op, dr, dc, dt, ret) ==
    [ op |-> op, dr |-> dr, dc |-> dc, dt |-> dt,
      wasMoving |-> player.moving, ret |-> ret ]

\* State after preload() and setup().
Init ==
    /\ levelsData \in LevelData
    /\ levels = BuildLevels(levelsData)
    /\ li = 0
    /\ player = loadLevel(NewPlayer, levels, 0)
    /\ hasWon = FALSE
    /\ showStart = TRUE
    /\ pc = "idle"
    /\ last = [ op |-> "setup", dr |-> 0, dc |-> 0, dt |-> 0,
                wasMoving |-> FALSE, ret |-> FALSE ]
    /\ transit = [r |-> null, c |-> null, keys |-> 0, tile |-> undefined]

\* The key-to-direction mapping of keyPressed; <<0, 0>> for any other key.
KeyDir(key) ==
    IF key \in {"LEFT_ARROW", "a"} THEN <<0, -1>>
    ELSE IF key \in {"RIGHT_ARROW", "d"} THEN <<0, 1>>
    ELSE IF key \in {"UP_ARROW", "w"} THEN <<-1, 0>>
    ELSE IF key \in {"DOWN_ARROW", "s"} THEN <<1, 0>>
    ELSE <<0, 0>>

\* What a started transit records: target, key count and target tile.
Started(p, level) ==
    [ r |-> p.targetR, c |-> p.targetC, keys |-> p.keysCollected,
      tile |-> tileAt(level, p.targetR, p.targetC) ]

restartGame ==
    /\ hasWon' = FALSE
    /\ showStart' = TRUE
    /\ li' = 0
    /\ player' = loadLevel(player, levels, 0)
    /\ last' = Call("restartGame", 0, 0, 0, FALSE)
    /\ UNCHANGED <<levelsData, levels, pc, transit>>

keyPressed(key) ==
    /\ pc = "idle"
    /\ IF showStart THEN
           /\ showStart' = FALSE
           /\ last' = Call("dismissStart", 0, 0, 0, FALSE)
           /\ UNCHANGED <<levelsData, levels, li, player, hasWon, pc, transit>>
       ELSE IF hasWon THEN
           IF key = " " THEN restartGame
           ELSE /\ last' = Call("ignoredKey", 0, 0, 0, FALSE)
                /\ UNCHANGED <<levelsData, levels, li, player, hasWon, showStart,
                               pc, transit>>
       ELSE IF KeyDir(key) = <<0, 0>> THEN
           /\ last' = Call("ignoredKey", 0, 0, 0, FALSE)
           /\ UNCHANGED <<levelsData, levels, li, player, hasWon, showStart,
                          pc, transit>>
       ELSE
           LET dr  == KeyDir(key)[1]
               dc  == KeyDir(key)[2]
               res == tryMove(player, levels[li], dr, dc)
           IN  /\ player' = res.player
               /\ last' = Call("tryMove", dr, dc, 0, res.ret)
               /\ transit' = IF ~player.moving /\ res.player.moving
                             THEN Started(res.player, levels[li]) ELSE transit
               /\ UNCHANGED <<levelsData, levels, li, hasWon, showStart, pc>>

\* draw() up to and including player.draw() and the test of line 270.
draw(deltaTime) ==
    /\ pc = "idle"
    /\ IF showStart THEN
           /\ last' = Call("drawStartScreen", 0, 0, 0, FALSE)
           /\ UNCHANGED <<levelsData, levels, li, player, hasWon, showStart,
                          pc, transit>>
       ELSE IF hasWon THEN
           /\ last' = Call("drawWinScreen", 0, 0, 0, FALSE)
           /\ UNCHANGED <<levelsData, levels, li, player, hasWon, showStart,
                          pc, transit>>
       ELSE
           /\ player' = update(player, deltaTime)
           /\ pc' = IF player'.arrivedThisFrame THEN "arrived" ELSE "idle"
           /\ last' = Call("update", 0, 0, deltaTime, FALSE)
           /\ UNCHANGED <<levelsData, levels, li, hasWon, showStart, transit>>

\* draw(), line 271: player.handleArrival(levels[li])
drawHandleArrival ==
    /\ pc = "arrived"
    /\ LET res == handleArrival(player, levels[li])
       IN  /\ player' = res.player
           /\ levels' = [levels EXCEPT ![li] = res.level]
    /\ pc' = "resolved"
    /\ last' = Call("handleArrival", 0, 0, 0, FALSE)
    /\ UNCHANGED <<levelsData, li, hasWon, showStart, transit>>

\* The end of draw() calling tryContinue whether or not the game was just won.
drawContinue_continueAfterWin ==
    /\ pc = "resolved"
    /\ LET won == isGoal(levels[li], player.r, player.c)
           res == tryContinue(player, levels[li])
       IN  /\ hasWon' = (hasWon \/ won)
           /\ player' = res.player
           /\ last' = Call(IF won THEN "win" ELSE "tryContinue",
                           player.dirR, player.dirC, 0, res.ret)
           /\ transit' = IF ~player.moving /\ res.player.moving
                         THEN Started(res.player, levels[li]) ELSE transit
    /\ pc' = "idle"
    /\ UNCHANGED <<levelsData, levels, li, showStart>>

\* draw(), lines 273-279: the goal test and tryContinue
drawContinue ==
    /\ pc = "resolved"
    /\ IF isGoal(levels[li], player.r, player.c) THEN
           /\ hasWon' = TRUE
           /\ last' = Call("win", 0, 0, 0, FALSE)
           /\ UNCHANGED <<player, transit>>
       ELSE
           LET res == tryContinue(player, levels[li])
           IN  /\ player' = res.player
               /\ last' = Call("tryContinue", player.dirR, player.dirC, 0, res.ret)
               /\ transit' = IF ~player.moving /\ res.player.moving
                             THEN Started(res.player, levels[li]) ELSE transit
               /\ UNCHANGED hasWon
    /\ pc' = "idle"
    /\ UNCHANGED <<levelsData, levels, li, showStart>>

Next ==
    \/ \E key \in Keys : keyPressed(key)
    \/ \E deltaTime \in DeltaTimes : draw(deltaTime)
    \/ drawHandleArrival
    \/ drawContinue

Spec == Init /\ [][Next]_vars

\* The sketch with no key pressed while a move is in progress, and with the
\* p5 draw loop running: frames with a positive deltaTime keep coming and
\* each draw() runs to its end.
QuietNext ==
    \/ \E key \in Keys : ~player.moving /\ keyPressed(key)
    \/ \E deltaTime \in DeltaTimes : draw(deltaTime)
    \/ drawHandleArrival
    \/ drawContinue

LiveSpec ==
    /\ Init
    /\ [][QuietNext]_vars
    /\ WF_vars(\E deltaTime \in DeltaTimes \ {0} : draw(deltaTime))
    /\ WF_vars(drawHandleArrival)
    /\ WF_vars(drawContinue)

----------------------------------------------------------------------------
(* Properties *)

\* The tile code stored at (r, c) of the current level, read from the grid
\* directly; undefined outside the grid.
TileNow(r, c) ==
    IF r \in DOMAIN levels[li].grid /\ c \in DOMAIN levels[li].grid[r]
    THEN levels[li].grid[r][c]
    ELSE undefined

\* The rule for entering (r, c) with the given key count, stated on the grid.
Enterable(keys, r, c) ==
    /\ r \in DOMAIN levels[li].grid
    /\ c \in DOMAIN levels[li].grid[r]
    /\ levels[li].grid[r][c] # Wall
    /\ ~(levels[li].grid[r][c] = Gate /\ keys = 0)

\* C1: a tryMove made while the player is not moving returns true and starts
\* a transit to the neighbour cell exactly when that cell is in bounds, is not
\* a Wall and is not a Gate while keysCollected is 0; otherwise it returns
\* false and no transit starts.
C1_TryMoveIffEnterable ==
    [][ (last'.op = "tryMove" /\ ~player.moving) =>
            LET nr == player.r + last'.dr
                nc == player.c + last'.dc
            IN  /\ last'.ret = Enterable(player.keysCollected, nr, nc)
                /\ player'.moving = last'.ret
                /\ last'.ret => (player'.targetR = nr /\ player'.targetC = nc)
      ]_vars

\* A tryMove from rest towards a Gate was accepted because a key is held.
C1_Witness ==
    /\ last.op = "tryMove" /\ ~last.wasMoving /\ last.ret
    /\ player.moving
    /\ player.targetR = player.r + last.dr
    /\ player.targetC = player.c + last.dc
    /\ TileNow(player.targetR, player.targetC) = Gate
    /\ player.keysCollected >= 1

\* C2: a rejected tryMove leaves the cell, the pixel position, the moving
\* flag, the key count and every grid tile unchanged.
C2_RejectedMoveChangesNothing ==
    [][ (last'.op = "tryMove" /\ ~last'.ret) =>
            /\ player'.r = player.r /\ player'.c = player.c
            /\ player'.px = player.px /\ player'.py = player.py
            /\ player'.moving = player.moving
            /\ player'.keysCollected = player.keysCollected
            /\ levels' = levels
      ]_vars

\* A tryMove towards a Gate was rejected with no key held.
C2_Witness ==
    /\ last.op = "tryMove" /\ ~last.ret
    /\ ~player.moving
    /\ TileNow(player.r + last.dr, player.c + last.dc) = Gate
    /\ player.keysCollected = 0

\* C3: a move requested into a Gate cell with keysCollected >= 1 is accepted,
\* and once the transit has completed and handleArrival has run, that cell is
\* Floor and keysCollected is one less than when the move was requested.
C3_GateCostsOneKey ==
    [][ /\ ( /\ last'.op = "tryMove" /\ ~player.moving
             /\ player.keysCollected >= 1
             /\ TileNow(player.r + last'.dr, player.c + last'.dc) = Gate )
           => ( /\ last'.ret /\ player'.moving
                /\ player'.targetR = player.r + last'.dr
                /\ player'.targetC = player.c + last'.dc )
        /\ (last'.op = "handleArrival" /\ transit.tile = Gate)
           => ( /\ player.r = transit.r /\ player.c = transit.c
                /\ transit.keys >= 1
                /\ levels'[li].grid[transit.r][transit.c] = Floor
                /\ player'.keysCollected = transit.keys - 1 )
      ]_vars

\* handleArrival has just resolved a gate that was entered with two keys.
C3_Witness ==
    /\ last.op = "handleArrival" /\ transit.tile = Gate
    /\ player.r = transit.r /\ player.c = transit.c
    /\ TileNow(player.r, player.c) = Floor
    /\ transit.keys = 2 /\ player.keysCollected = 1

\* C4: handleArrival on a Key cell adds exactly one key and turns that cell
\* into Floor; on a Floor or Goal cell it changes neither the key count nor
\* any tile.
C4_KeyPickup ==
    [][ last'.op = "handleArrival" =>
            LET t == TileNow(player.r, player.c) IN
            /\ t = Key =>
                 /\ player'.keysCollected = player.keysCollected + 1
                 /\ levels' = [levels EXCEPT ![li].grid[player.r][player.c] = Floor]
            /\ t \in {Floor, Goal} =>
                 /\ player'.keysCollected = player.keysCollected
                 /\ levels' = levels
      ]_vars

\* handleArrival has just picked up the second key.
C4_Witness ==
    /\ last.op = "handleArrival" /\ transit.tile = Key
    /\ player.r = transit.r /\ player.c = transit.c
    /\ TileNow(player.r, player.c) = Floor
    /\ player.keysCollected = 2

\* C5: keysCollected is a non-negative integer in every reachable state, and
\* handleArrival never resolves a Gate with keysCollected = 0 (the clamp of
\* Math.max never takes effect).
C5_KeysNonNegative ==
    /\ player.keysCollected \in Nat
    /\ (pc = "arrived" /\ TileNow(player.r, player.c) = Gate)
          => player.keysCollected >= 1

\* The player has arrived on a Gate holding exactly one key.
C5_Witness ==
    /\ pc = "arrived" /\ player.arrivedThisFrame
    /\ TileNow(player.r, player.c) = Gate
    /\ player.keysCollected = 1

\* C6: whenever the player is at rest (not moving, arrival resolved) its cell
\* is not a Wall and is not a Gate while keysCollected is 0, level loads
\* included.
C6_RestCellEnterable ==
    (~player.moving /\ ~player.arrivedThisFrame) =>
        /\ TileNow(player.r, player.c) # Wall
        /\ ~(TileNow(player.r, player.c) = Gate /\ player.keysCollected = 0)

Abs(x) == IF x < 0 THEN -x ELSE x

\* Pixel centre of column or row i.
Centre(i) == i * TS + TS \div 2

\* C7: a tryMove made while moving returns true and changes only the stored
\* direction; the transit in flight still arrives at the target chosen when
\* it started; the stored direction is changed by nothing else in play, and
\* it is the one a later tryContinue moves along.
C7_QueuedDirection ==
    [][ /\ (last'.op = "tryMove" /\ player.moving)
           => ( /\ last'.ret
                /\ player' = [player EXCEPT !.dirR = last'.dr, !.dirC = last'.dc]
                /\ levels' = levels )
        /\ (player.moving /\ ~player'.moving)
           => ( /\ player'.r = transit.r /\ player'.c = transit.c
                /\ player'.px = Centre(transit.c) /\ player'.py = Centre(transit.r) )
        /\ (last'.op \in {"update", "handleArrival", "tryContinue", "win"})
           => (player'.dirR = player.dirR /\ player'.dirC = player.dirC)
        /\ (last'.op = "tryContinue" /\ last'.ret)
           => ( /\ player'.moving
                /\ player'.targetR = player.r + player.dirR
                /\ player'.targetC = player.c + player.dirC )
      ]_vars

\* A tryMove made in mid-transit stored a direction that differs from the
\* direction of the transit, whose target is still the one it started with.
C7_Witness ==
    /\ last.op = "tryMove" /\ last.wasMoving /\ last.ret
    /\ player.moving
    /\ player.dirR = last.dr /\ player.dirC = last.dc
    /\ <<player.targetR - player.r, player.targetC - player.c>> # <<last.dr, last.dc>>
    /\ player.targetR = transit.r /\ player.targetC = transit.c
    /\ <<player.px, player.py>> # <<Centre(player.c), Centre(player.r)>>

\* Squared distance from the pixel position of p to the centre of its target.
DistSq(p) ==
    (Centre(p.targetC) - p.px) * (Centre(p.targetC) - p.px)
    + (Centre(p.targetR) - p.py) * (Centre(p.targetR) - p.py)

\* C8: when update runs while moving, a step of at least the remaining
\* distance puts the pixel position on the target centre, commits the target
\* cell, clears moving and sets arrivedThisFrame; a smaller step leaves the
\* cell, moving and arrivedThisFrame unchanged.
C8_ArrivalExact ==
    [][ (last'.op = "update" /\ player.moving) =>
            LET step == (speed * last'.dt) \div 13000 IN
            IF step * step >= DistSq(player)
            THEN /\ player'.px = Centre(player.targetC)
                 /\ player'.py = Centre(player.targetR)
                 /\ player'.r = player.targetR /\ player'.c = player.targetC
                 /\ ~player'.moving
                 /\ player'.arrivedThisFrame
            ELSE /\ player'.r = player.r /\ player'.c = player.c
                 /\ player'.moving = player.moving
                 /\ player'.arrivedThisFrame = player.arrivedThisFrame
      ]_vars

\* An update with a positive delta has just completed a transit.
C8_Witness ==
    /\ last.op = "update" /\ last.wasMoving /\ last.dt > 0
    /\ pc = "arrived" /\ player.arrivedThisFrame /\ ~player.moving
    /\ player.r = transit.r /\ player.c = transit.c
    /\ player.px = Centre(player.c) /\ player.py = Centre(player.r)

\* v lies between a and b.
Between(v, a, b) == (a <= v /\ v <= b) \/ (b <= v /\ v <= a)

\* The pixel position of p lies on the segment from the centre of its cell
\* to the centre of its target.
OnSegment(p) ==
    /\ Between(p.px, Centre(p.c), Centre(p.targetC))
    /\ Between(p.py, Centre(p.r), Centre(p.targetR))
    /\ (p.px - Centre(p.c)) * (Centre(p.targetR) - Centre(p.r))
       = (p.py - Centre(p.r)) * (Centre(p.targetC) - Centre(p.c))

\* C9: update never carries the pixel position past the target centre: while
\* moving the pixel position is on the segment between the centres of the
\* current cell and of the target, an update never increases the distance to
\* the target centre, and a completed transit ends on the target centre.
C9_NoOvershoot ==
    [][ /\ player.moving => OnSegment(player)
        /\ player'.moving => OnSegment(player')
        /\ (last'.op = "update" /\ player.moving)
           => IF player'.moving
              THEN DistSq(player') <= DistSq(player)
              ELSE /\ player'.px = Centre(player.targetC)
                   /\ player'.py = Centre(player.targetR)
      ]_vars

\* A transit is under way, strictly between the two centres.
C9_Witness ==
    /\ last.op = "update" /\ last.dt > 0
    /\ player.moving /\ OnSegment(player)
    /\ <<player.px, player.py>> # <<Centre(player.c), Centre(player.r)>>
    /\ DistSq(player) > 0 /\ DistSq(player) <= 8 * 8

\* C10: once handleArrival has resolved an arrival, a second handleArrival
\* without a transit in between changes neither keysCollected nor the grid.
C10_ArrivalIdempotent ==
    pc = "resolved" =>
        LET again == handleArrival(player, levels[li]) IN
        /\ again.player.keysCollected = player.keysCollected
        /\ again.level.grid = levels[li].grid

\* An arrival on a Key cell has just been resolved.
C10_Witness ==
    /\ pc = "resolved" /\ last.op = "handleArrival"
    /\ transit.tile = Key
    /\ player.r = transit.r /\ player.c = transit.c
    /\ player.keysCollected = transit.keys + 1

\* The cells of a source matrix that hold the Start code.
StartCells(src) ==
    { rc \in UNION { {<<r, c>> : c \in DOMAIN src[r]} : r \in DOMAIN src } :
        src[rc[1]][rc[2]] = Start }

\* The first of them in row-major order, <<>> when there is none.
FirstStart(src) ==
    IF StartCells(src) = {} THEN <<>>
    ELSE CHOOSE rc \in StartCells(src) :
            \A o \in StartCells(src) :
                rc[1] < o[1] \/ (rc[1] = o[1] /\ rc[2] <= o[2])

\* Where a load of level i puts the player: its start, else the fallback.
SpawnCell(i) ==
    IF FirstStart(levelsData[i + 1]) # <<>> THEN FirstStart(levelsData[i + 1])
    ELSE <<1, 1>>

\* C11: right after every level load (setup and every restart) the player is
\* on the level's start cell (the fallback cell when there is none), its
\* pixel position is that cell's centre, keysCollected is 0, the direction is
\* (0,0), and moving and arrivedThisFrame are false.
C11_LoadResetsPlayer ==
    last.op \in {"setup", "restartGame"} =>
        /\ li = 0
        /\ <<player.r, player.c>> = SpawnCell(li)
        /\ player.px = Centre(player.c) /\ player.py = Centre(player.r)
        /\ player.keysCollected = 0
        /\ player.dirR = 0 /\ player.dirC = 0
        /\ ~player.moving
        /\ ~player.arrivedThisFrame

\* A restart has put the player back after a win reached holding a key.
C11_Witness ==
    /\ last.op = "restartGame"
    /\ transit.keys >= 1
    /\ TileNow(transit.r, transit.c) = Goal
    /\ <<player.r, player.c>> = SpawnCell(li)
    /\ <<player.r, player.c>> # <<transit.r, transit.c>>
    /\ player.keysCollected = 0

\* The grid a level has at its first load: the source matrix with its first
\* Start cell turned into Floor.
FirstLoadGrid(i) ==
    [r \in DOMAIN levelsData[i + 1] |->
        [c \in DOMAIN levelsData[i + 1][r] |->
            IF <<r, c>> = FirstStart(levelsData[i + 1]) THEN Floor
            ELSE levelsData[i + 1][r][c]]]

\* C12: reloading a level is idempotent: right after a restart the level's
\* grid equals its grid at the first load (consumed Key and Gate tiles are
\* back), and the source matrices are still the ones read at preload.
C12_ReloadRestoresGrid ==
    last.op = "restartGame" =>
        /\ levels[li].grid = FirstLoadGrid(li)
        /\ levelsData \in LevelData

\* C13: constructing a Level records the first Start-coded cell of the matrix
\* in row-major order (null when there is none), and afterwards no cell of
\* the level's grid holds the Start code.
C13_StartRecordedAndNormalised ==
    \A i \in DOMAIN levels :
        /\ levels[i].start = FirstStart(levelsData[i + 1])
        /\ \A r \in DOMAIN levels[i].grid :
               \A c \in DOMAIN levels[i].grid[r] : levels[i].grid[r][c] # Start

\* A source matrix is malformed: rows of different lengths, a code outside
\* the legend, or more than one Start.
Malformed(src) ==
    \/ \E r \in DOMAIN src : DOMAIN src[r] # DOMAIN src[0]
    \/ \E r \in DOMAIN src : \E c \in DOMAIN src[r] :
           src[r][c] \notin {Floor, Wall, Start, Goal, Key, Gate}
    \/ Cardinality(StartCells(src)) > 1

\* C14: construction from a malformed matrix fails (InvalidLevelData): no
\* Level instance exists for a malformed source matrix.
C14_MalformedRejected ==
    \A i \in 1..Len(levelsData) :
        Malformed(levelsData[i]) => (i - 1) \notin DOMAIN levels

\* What the claims about tryContinue expect of a call that starts a transit
\* from player state p: a non-zero stored direction and an enterable
\* neighbour.
MayContinue(p) ==
    /\ ~p.moving
    /\ <<p.dirR, p.dirC>> # <<0, 0>>
    /\ Enterable(p.keysCollected, p.r + p.dirR, p.c + p.dirC)

\* The player p with a transit started along its stored direction.
Continued(p) ==
    [p EXCEPT !.moving = TRUE, !.targetR = p.r + p.dirR, !.targetC = p.c + p.dirC]

\* C15 as stated: in every player state tryContinue returns true exactly when
\* the call started a new transit (moving false before, true after, target =
\* cell + stored direction), and otherwise returns false and changes nothing.
C15_ContinueTrueIffStarted ==
    LET res == tryContinue(player, levels[li]) IN
    IF MayContinue(player)
    THEN res.ret /\ res.player = Continued(player)
    ELSE ~res.ret /\ res.player = player

\* C15 as amended: called while the player is not moving, tryContinue returns
\* true exactly when the call started a new transit, and otherwise returns
\* false and changes nothing; called while the player is moving it returns
\* true and changes nothing.  The calls made by draw are all of the first
\* kind and leave the grid alone.
C15_ContinueWhenIdle ==
    [][ /\ LET res == tryContinue(player, levels[li]) IN
           IF player.moving THEN res.ret /\ res.player = player
           ELSE IF MayContinue(player)
                THEN res.ret /\ res.player = Continued(player)
                ELSE ~res.ret /\ res.player = player
        /\ last'.op = "tryContinue" =>
              /\ ~player.moving
              /\ levels' = levels
              /\ last'.ret = MayContinue(player)
              /\ player' = IF last'.ret THEN Continued(player) ELSE player
      ]_vars

\* draw's tryContinue has just started the next transit from the cell the
\* player arrived on.
C15_Witness ==
    /\ last.op = "tryContinue" /\ last.ret /\ ~last.wasMoving
    /\ player.moving
    /\ player.targetR = player.r + player.dirR
    /\ player.targetC = player.c + player.dirC
    /\ <<player.px, player.py>> = <<Centre(player.c), Centre(player.r)>>

\* C16: every arrival (moving becomes false) is followed at once by exactly
\* one handleArrival, before any tryMove, tryContinue or update, and
\* arrivedThisFrame is false whenever draw is not running, that is whenever
\* a key event can be delivered.
C16_ArrivalResolvedOnce ==
    [][ /\ pc = "idle" => ~player.arrivedThisFrame
        /\ pc' = "idle" => ~player'.arrivedThisFrame
        /\ (player.moving /\ ~player'.moving)
           => (last'.op = "update" /\ player'.arrivedThisFrame /\ pc' = "arrived")
        /\ player.arrivedThisFrame
           => (last'.op = "handleArrival" /\ ~player'.arrivedThisFrame)
        /\ last'.op = "handleArrival"
           => (last.op = "update" /\ player.arrivedThisFrame /\ ~player.moving)
        /\ last'.op \in {"tryMove", "tryContinue", "update"}
           => ~player.arrivedThisFrame
      ]_vars

\* The arrival on the goal cell has just been resolved by handleArrival.
C16_Witness ==
    /\ last.op = "handleArrival" /\ pc = "resolved"
    /\ ~player.arrivedThisFrame /\ ~player.moving
    /\ player.r = transit.r /\ player.c = transit.c
    /\ transit.tile = Goal

\* The player has come to rest: draw is over, the player is not moving, and
\* the game is won or the neighbour in the stored direction cannot be entered.
AtRest ==
    /\ pc = "idle" /\ ~player.moving
    /\ \/ hasWon
       \/ ~Enterable(player.keysCollected,
                     player.r + player.dirR, player.c + player.dirC)

\* C17: with frames of positive delta coming and no key pressed meanwhile,
\* every move in progress comes to rest; until then each transit ends one
\* cell further in the stored direction, and in the frame of each arrival the
\* game is won on a Goal cell, and otherwise tryContinue starts the next
\* transit exactly when the next cell in that direction can be entered.
C17_MoveComesToRest ==
    /\ player.moving ~> AtRest
    /\ [][ /\ (player.moving /\ ~player'.moving)
              => ( /\ player'.r = player.r + player.dirR
                   /\ player'.c = player.c + player.dirC
                   /\ Abs(player.dirR) + Abs(player.dirC) = 1 )
           /\ pc = "resolved"
              => IF TileNow(player.r, player.c) = Goal
                 THEN hasWon' /\ ~player'.moving
                 ELSE /\ last'.op = "tryContinue"
                      /\ player'.moving =
                            Enterable(player.keysCollected,
                                      player.r + player.dirR, player.c + player.dirC)
                      /\ player'.moving =>
                            ( /\ player'.targetR = player.r + player.dirR
                              /\ player'.targetC = player.c + player.dirC )
         ]_vars

\* A move that ran over at least two cells has come to rest in front of a
\* cell that cannot be entered.
C17_Witness ==
    /\ AtRest /\ ~hasWon
    /\ last.op = "tryContinue" /\ ~last.ret
    /\ player.r = transit.r /\ player.c = transit.c
    /\ transit.tile = Floor
    /\ TileNow(player.r - player.dirR, player.c - player.dirC) = Floor
    /\ TileNow(player.r + player.dirR, player.c + player.dirC) = Wall

\* (r, c) is a cell of the current level's grid.
InGrid(r, c) == r \in DOMAIN levels[li].grid /\ c \in DOMAIN levels[li].grid[r]

\* C18: every tile query is made on coordinates inside the current level's
\* grid; equivalently the player's cell is inside the grid in every reachable
\* state, the fallback spawn at (1,1) included, so that handleArrival and the
\* goal test may query it without calling inBounds.
C18_CellInBounds ==
    InGrid(player.r, player.c)

\* C19: hasWon becomes true exactly in the frame in which the player arrives
\* on a Goal cell, after handleArrival and with no tryContinue in that frame;
\* while hasWon stays true no key press and no frame changes the player's
\* cell, pixel position, key count or any tile; and the won state is left
\* only by a restart.
C19_WinOnGoalArrival ==
    [][ /\ (~hasWon /\ hasWon')
           => ( /\ pc = "resolved" /\ last.op = "handleArrival"
                /\ player.r = transit.r /\ player.c = transit.c
                /\ TileNow(player.r, player.c) = Goal
                /\ last'.op = "win"
                /\ player' = player /\ levels' = levels )
        /\ (pc = "resolved" /\ TileNow(player.r, player.c) = Goal) => hasWon'
        /\ (hasWon /\ hasWon')
           => ( /\ player'.r = player.r /\ player'.c = player.c
                /\ player'.px = player.px /\ player'.py = player.py
                /\ player'.keysCollected = player.keysCollected
                /\ levels' = levels )
        /\ (hasWon /\ ~hasWon') => last'.op = "restartGame"
        /\ last'.op = "restartGame" => hasWon
      ]_vars

\* The game is won, the player is on the Goal cell it arrived on, and a key
\* other than SPACE has just been pressed.
C19_Witness ==
    /\ hasWon /\ last.op = "ignoredKey"
    /\ player.r = transit.r /\ player.c = transit.c
    /\ TileNow(player.r, player.c) = Goal
    /\ ~player.moving

\* The cells of the current level in the array of levels lvls.
CellsOf(lvls) ==
    UNION { {<<r, c>> : c \in DOMAIN lvls[li].grid[r]} : r \in DOMAIN lvls[li].grid }

\* The number of tiles with the given code in the current level of lvls.
TileCount(lvls, code) ==
    Cardinality({ rc \in CellsOf(lvls) : lvls[li].grid[rc[1]][rc[2]] = code })

\* C20: between two level loads keys are conserved.  A load sets
\* keysCollected to 0 and leaves the grid alone, and every other step changes
\* keysCollected by the number of Key tiles it consumes minus the number of
\* Gate tiles it consumes, so that in every state keysCollected is the number
\* of Key tiles consumed since the load minus the number of Gate tiles
\* consumed since the load.  A tile only ever changes from Key or Gate to
\* Floor; Wall and Goal tiles and the dimensions of the grids never change.
C20_KeysConserved ==
    [][ /\ last'.op = "restartGame"
           => (player'.keysCollected = 0 /\ levels' = levels)
        /\ last'.op # "restartGame"
           => player'.keysCollected - player.keysCollected
                = (TileCount(levels, Key) - TileCount(levels', Key))
                  - (TileCount(levels, Gate) - TileCount(levels', Gate))
        /\ li' = li
        /\ DOMAIN levels' = DOMAIN levels
        /\ \A i \in DOMAIN levels :
              /\ DOMAIN levels'[i].grid = DOMAIN levels[i].grid
              /\ \A r \in DOMAIN levels[i].grid :
                    /\ DOMAIN levels'[i].grid[r] = DOMAIN levels[i].grid[r]
                    /\ \A c \in DOMAIN levels[i].grid[r] :
                          \/ levels'[i].grid[r][c] = levels[i].grid[r][c]
                          \/ /\ levels[i].grid[r][c] \in {Key, Gate}
                             /\ levels'[i].grid[r][c] = Floor
      ]_vars

\* The only key of the level has been picked up and spent on a gate.
C20_Witness ==
    /\ last.op = "handleArrival"
    /\ transit.tile = Gate /\ transit.keys = 1
    /\ player.keysCollected = 0
    /\ TileCount(levels, Key) = 0
    /\ TileNow(transit.r, transit.c) = Floor

====
